---- MODULE Spec2Model ----
(***************************************************************************)
(* hearthis-search: the /search handler of src/app.py.  A query is         *)
(* normalised, looked up in SEARCH_CACHE (a TTL cache), and on a miss      *)
(* fanned out to 3 fetch_global pages and one fetch_artist per artist of   *)
(* the shuffled prefix; results are collected in completion order,         *)
(* de-duplicated by id, scored, filtered, sorted, truncated and cached.    *)
(*                                                                         *)
(* Strings are sequences of one-character strings.  A JSON value is a      *)
(* record [t, s, n]: t is its type tag, s its text (t = "str"), n its      *)
(* number (t = "int").  A key that is absent from an object has            *)
(* t = "missing".                                                          *)
(***************************************************************************)
EXTENDS Integers, Sequences, FiniteSets, TLC

VARIABLES
  now,            \* the clock read by the cache's timer
  SEARCH_CACHE,   \* key -> [val, ins, expires]; expired entries stay until purged
  lru,            \* the cache's keys, least recently used first
  stored,         \* key -> the last list a run stored under it, when, and
                  \*   whether all its fetches had failed; never forgotten
  KNOWN_ARTISTS,  \* the artist list after the start-up shuffle
  fixed,          \* the remote service's answer to each future of a run, in
                  \*   submission order, where the service is taken to be fixed
  pc,             \* per request: its position in search()
  raw,            \* per request: the q argument as received
  q,              \* per request: the normalised query
  pending,        \* per request: the futures not yet yielded by as_completed
  results,        \* per request: the list results
  seen_ids,       \* per request: the set seen_ids
  resp,           \* per request: what search() returned, or that it raised
  via,            \* per request: the path taken (short / hit / miss)
  nfetch,         \* per request: fetch operations submitted by this call
  occ,            \* per request: id -> number of fetch results holding it (capped at 2)
  okIds,          \* per request: ids delivered by fetches that did not fail
  anyOk,          \* per request: some collected fetch did not fail
  anyFailed,      \* per request: some collected fetch failed
  first,          \* per request: id -> what became of the first item met, the
                  \*   first met that scored above the floor, and whether a
                  \*   later one scored differently from it
  probe           \* the last fetcher or scorer call made in isolation

vars == <<now, SEARCH_CACHE, lru, stored, KNOWN_ARTISTS, fixed, pc, raw, q, pending, results,
          seen_ids, resp, via, nfetch, occ, okIds, anyOk, anyFailed, first, probe>>

----------------------------------------------------------------------------
(* Bounds of the model and constants of the program.                       *)

\* Cache(ttl=1800): seconds an entry lives after its insertion.
TTL == 1800
\* The relevance floor: items must score above it.
SCORE_FLOOR == 45
\* range(1, 4): the pages 1..3 of the global search.
LAST_PAGE == 3
\* The scores of the exact rule, the split rule, and the download bonus.
EXACT_SCORE == 100
SPLIT_SCORE == 95
DOWNLOAD_BONUS == 5
\* results[:150], scaled: the model keeps the first MAX_RESULTS.
MAX_RESULTS == 2
\* KNOWN_ARTISTS[:20], scaled: the model takes the first TOP_ARTISTS.
TOP_ARTISTS == 1
\* TTLCache(maxsize=3000), scaled: the model's cache holds MAXSIZE entries.
MAXSIZE == 1
\* ThreadPoolExecutor(max_workers=30), scaled with the number of futures.
MAX_WORKERS == 5
\* The clock advances by TickStep, up to MaxTime.
TickStep == 600
MaxTime == 2400

----------------------------------------------------------------------------
(* Strings.                                                                *)

Min(a, b) == IF a < b THEN a ELSE b

\* str.lower() on the model's alphabet.
LowerChar(c) ==
  CASE c = "A" -> "a"
    [] c = "B" -> "b"
    [] OTHER -> c

lower(s) == [i \in 1..Len(s) |-> LowerChar(s[i])]

IsSpace(c) == c = " "

RECURSIVE lstrip(_)
lstrip(s) ==
  IF s # <<>> /\ IsSpace(Head(s)) THEN lstrip(Tail(s)) ELSE s

RECURSIVE rstrip(_)
rstrip(s) ==
  IF s # <<>> /\ IsSpace(s[Len(s)]) THEN rstrip(SubSeq(s, 1, Len(s) - 1)) ELSE s

\* str.strip()
strip(s) == rstrip(lstrip(s))

\* Python's `sub in s` on strings.
Contains(sub, s) ==
  \E i \in 0..(Len(s) - Len(sub)) : SubSeq(s, i + 1, i + Len(sub)) = sub

\* str.split(): the maximal runs of non-space characters, in order.
RECURSIVE SplitFrom(_, _, _)
SplitFrom(s, cur, acc) ==
  IF s = <<>>
  THEN IF cur = <<>> THEN acc ELSE Append(acc, cur)
  ELSE IF IsSpace(Head(s))
       THEN SplitFrom(Tail(s), <<>>, IF cur = <<>> THEN acc ELSE Append(acc, cur))
       ELSE SplitFrom(Tail(s), Append(cur, Head(s)), acc)

split(s) == SplitFrom(s, <<>>, <<>>)

IsDigit(c) == c \in {"0", "1", "2", "3", "4", "5", "6", "7", "8", "9"}

DigitVal(c) ==
  CASE c = "0" -> 0 [] c = "1" -> 1 [] c = "2" -> 2 [] c = "3" -> 3
    [] c = "4" -> 4 [] c = "5" -> 5 [] c = "6" -> 6 [] c = "7" -> 7
    [] c = "8" -> 8 [] OTHER -> 9

RECURSIVE DigitsVal(_, _)
DigitsVal(s, acc) ==
  IF s = <<>> THEN acc ELSE DigitsVal(Tail(s), 10 * acc + DigitVal(Head(s)))

----------------------------------------------------------------------------
(* JSON values and the remote service's records.                           *)

Str(s) == [t |-> "str", s |-> s, n |-> 0]
Num(n) == [t |-> "int", s |-> <<>>, n |-> n]
Null == [t |-> "null", s |-> <<>>, n |-> 0]
Missing == [t |-> "missing", s |-> <<>>, n |-> 0]
\* A JSON object and a JSON array with something in them (both truthy).
Obj == [t |-> "dict", s |-> <<>>, n |-> 0]
Arr == [t |-> "list", s |-> <<>>, n |-> 0]

\* Python truthiness of a value obtained with .get(key).
Truthy(v) ==
  CASE v.t = "str" -> v.s # <<>>
    [] v.t = "int" -> v.n # 0
    [] v.t \in {"null", "missing"} -> FALSE
    [] OTHER -> TRUE

\* What a call returns: a value, or that it raised.
Ret(v) == [raised |-> FALSE, v |-> v]
Raise == [raised |-> TRUE, v |-> 0]

----------------------------------------------------------------------------
(* HELPER: Relevance Scorer.                                               *)

\* track.get('title', '').lower(): a missing title is '', a title that is
\* not a string has no .lower() and raises.
TitleOf(track) ==
  CASE track.title.t = "missing" -> Ret(<<>>)
    [] track.title.t = "str" -> Ret(lower(track.title.s))
    [] OTHER -> Raise

\* track.get('user', {}).get('username', '').lower()
UserOf(track) ==
  CASE track.user.t = "missing" -> Ret(<<>>)
    [] track.user.t = "dict" /\ track.username.t = "missing" -> Ret(<<>>)
    [] track.user.t = "dict" /\ track.username.t = "str" -> Ret(lower(track.username.s))
    [] OTHER -> Raise

\* fuzz.token_set_ratio(query, combined): the library is outside the
\* repository; its value for a record is an input of the model, carried by
\* the record as fuzz, anywhere in the ratio's range.
token_set_ratio(query, combined, track) == track.fuzz

BonusIfPresent(track) ==
  IF track.download_url.t # "missing" THEN DOWNLOAD_BONUS ELSE 0

\* if track.get('download_url'): score += 5
Bonus(track) == IF Truthy(track.download_url) THEN DOWNLOAD_BONUS ELSE 0

calculate_score_split_first(query, track) ==
  IF TitleOf(track).raised \/ UserOf(track).raised THEN Raise
  ELSE LET title == TitleOf(track).v
           combined == title \o <<" ">> \o UserOf(track).v
           query_parts == split(query)
       IN IF /\ Len(query_parts) > 1
             /\ \A i \in 1..Len(query_parts) : Contains(query_parts[i], combined)
          THEN Ret(SPLIT_SCORE)
          ELSE IF Contains(query, title) THEN Ret(EXACT_SCORE)
               ELSE Ret(token_set_ratio(query, combined, track) + Bonus(track))

calculate_score(query, track) ==
  IF TitleOf(track).raised \/ UserOf(track).raised THEN Raise
  ELSE LET title == TitleOf(track).v
           user == UserOf(track).v
           combined == title \o <<" ">> \o user
           query_parts == split(query)
       IN IF Contains(query, title) THEN Ret(EXACT_SCORE)
          ELSE IF /\ Len(query_parts) > 1
                  /\ \A i \in 1..Len(query_parts) : Contains(query_parts[i], combined)
               THEN Ret(SPLIT_SCORE)
               ELSE Ret(token_set_ratio(query, combined, track) + Bonus(track))

----------------------------------------------------------------------------
(* SEARCH WORKERS.                                                         *)

HTTP_OK == 200

\* The request raised (timeout, connection error), or the answer says so.
Failed(r) ==
  r.net = "error" \/ r.status # HTTP_OK \/ r.body.t = "unparsable"

SelectDicts(elems) == SelectSeq(elems, LAMBDA e : e.dict)

\* if r.status_code != 200: return []
GlobalStatusOk(r) == r.status = HTTP_OK

\* fetch_global: never raises (bare except); returns the list of elements.
fetch_global(r) ==
  IF r.net = "error" THEN <<>>
  ELSE IF ~GlobalStatusOk(r) THEN <<>>
  ELSE IF r.body.t = "unparsable" THEN <<>>
  ELSE IF r.body.t = "list" THEN r.body.elems
  ELSE IF r.body.t = "dict" THEN SelectDicts(r.body.elems)
  ELSE <<>>

\* if score > 45 (fetch_artist)
ArtistKeeps(score) == score > SCORE_FLOOR

\* The loop of fetch_artist over data: [raised, v]; a record whose scoring
\* raises ends the loop in the except clause.
RECURSIVE ArtistMatches(_, _, _)
ArtistMatches(data, query, matches) ==
  IF data = <<>> THEN Ret(matches)
  ELSE LET t == Head(data)
       IN IF ~t.dict THEN ArtistMatches(Tail(data), query, matches)
          ELSE LET score == calculate_score(query, t)
               IN IF score.raised THEN Raise
                  ELSE IF ArtistKeeps(score.v)
                       THEN ArtistMatches(Tail(data), query,
                              Append(matches, [t EXCEPT !._score = Num(score.v)]))
                       ELSE ArtistMatches(Tail(data), query, matches)

\* fetch_artist: never raises (bare except); the status is not looked at.
fetch_artist(r, query) ==
  IF r.net = "error" THEN <<>>
  ELSE IF r.body.t = "unparsable" THEN <<>>
  ELSE IF r.body.t = "list"
       THEN LET m == ArtistMatches(r.body.elems, query, <<>>)
            IN IF m.raised THEN <<>> ELSE m.v
       ELSE <<>>

----------------------------------------------------------------------------
(* The collection loop of search().                                        *)

\* tid is usable as a set element: a list or an object is unhashable.
Hashable(v) == v.t \notin {"list", "dict"}

\* The value t['_score'] after "if '_score' not in t": the one the payload
\* or fetch_artist put there, else the scorer's.
EnsureScore(query, t) ==
  IF t._score.t = "missing"
  THEN LET c == calculate_score(query, t)
       IN IF c.raised THEN Raise ELSE Ret(Num(c.v))
  ELSE Ret(t._score)

EngineKeepsAtFloor(score) == score >= SCORE_FLOOR

\* if t['_score'] > 45 (search)
EngineKeeps(score) == score > SCORE_FLOOR

SeenNever(tid, seen) == FALSE

\* tid in seen_ids
Seen(tid, seen) == tid \in seen

\* The loop with seen_ids.add(tid) ahead of the score test.
CollectOneMarkFirst(c, t, query) ==
  IF ~t.dict THEN [c EXCEPT !.raised = TRUE]
  ELSE LET tid == t.id
       IN IF ~Truthy(tid) THEN c
          ELSE IF ~Hashable(tid) THEN [c EXCEPT !.raised = TRUE]
          ELSE IF Seen(tid, c.seen_ids) THEN c
          ELSE LET sc == EnsureScore(query, t)
               IN IF sc.raised \/ sc.v.t # "int" THEN [c EXCEPT !.raised = TRUE]
                  ELSE IF EngineKeeps(sc.v.n)
                       THEN [c EXCEPT !.seen_ids = @ \cup {tid},
                                      !.results = Append(@, [t EXCEPT !._score = sc.v])]
                       ELSE [c EXCEPT !.seen_ids = @ \cup {tid}]

\* One iteration of "for t in tracks" on c = [results, seen_ids, raised].
CollectOne(c, t, query) ==
  IF ~t.dict THEN [c EXCEPT !.raised = TRUE]
  ELSE LET tid == t.id
       IN IF ~Truthy(tid) THEN c
          ELSE IF ~Hashable(tid) THEN [c EXCEPT !.raised = TRUE]
          ELSE IF Seen(tid, c.seen_ids) THEN c
          ELSE LET sc == EnsureScore(query, t)
               IN IF sc.raised \/ sc.v.t # "int" THEN [c EXCEPT !.raised = TRUE]
                  ELSE IF EngineKeeps(sc.v.n)
                       THEN [c EXCEPT !.seen_ids = @ \cup {tid},
                                      !.results = Append(@, [t EXCEPT !._score = sc.v])]
                       ELSE c

\* "for t in tracks" for one future's result; stops where an iteration raises.
RECURSIVE Collect(_, _, _)
Collect(c, tracks, query) ==
  IF tracks = <<>> \/ c.raised THEN c
  ELSE Collect(CollectOne(c, Head(tracks), query), Tail(tracks), query)

----------------------------------------------------------------------------
(* Sort: Relevance > Plays, and the cut to the first MAX_RESULTS.          *)

\* int(x.get('playback_count', 0))
PlayCount(x) ==
  CASE x.playback_count.t = "missing" -> Ret(0)
    [] x.playback_count.t = "int" -> Ret(x.playback_count.n)
    [] x.playback_count.t = "str" ->
         LET d == strip(x.playback_count.s)
         IN IF d # <<>> /\ \A i \in 1..Len(d) : IsDigit(d[i])
            THEN Ret(DigitsVal(d, 0))
            ELSE Raise
    [] OTHER -> Raise

\* key=lambda x: (x.get('_score', 0), int(x.get('playback_count', 0)))
SortKey(x) == <<x._score.n, PlayCount(x).v>>

KeyLess(a, b) == a[1] < b[1] \/ (a[1] = b[1] /\ a[2] < b[2])

\* x placed into the descending list s behind every item whose key is not
\* smaller: equal keys keep their order (the sort is stable under reverse).
RECURSIVE InsertDesc(_, _)
InsertDesc(x, s) ==
  IF s = <<>> THEN <<x>>
  ELSE IF KeyLess(SortKey(Head(s)), SortKey(x))
       THEN <<x>> \o s
       ELSE <<Head(s)>> \o InsertDesc(x, Tail(s))

RECURSIVE SortDescFrom(_, _)
SortDescFrom(s, acc) ==
  IF s = <<>> THEN acc ELSE SortDescFrom(Tail(s), InsertDesc(Head(s), acc))

SortNoOp(s) == Ret(s)

\* results.sort(key=..., reverse=True): raises when a key cannot be computed.
SortResults(s) ==
  IF \E i \in 1..Len(s) : PlayCount(s[i]).raised THEN Raise
  ELSE Ret(SortDescFrom(s, <<>>))

TruncateNone(s) == s

\* results[:150]
Truncate(s) == SubSeq(s, 1, Min(Len(s), MAX_RESULTS))

----------------------------------------------------------------------------
(* SEARCH_CACHE = TTLCache(maxsize, ttl).                                  *)

Without(seq, S) == SelectSeq(seq, LAMBDA k : k \notin S)

LiveAtExpiry(c, k, time) == k \in DOMAIN c /\ time <= c[k].expires

\* q in SEARCH_CACHE: present and not expired; the order of use is untouched.
CacheContains(c, k, time) == k \in DOMAIN c /\ time < c[k].expires

CacheGetitemEmpty(c, k) == <<>>

\* SEARCH_CACHE[q] for a key that is present and not expired.
CacheGetitem(c, k) == c[k].val

\* The entries expire(time) removes.
Expired(c, time) == {k \in DOMAIN c : ~(time < c[k].expires)}

\* SEARCH_CACHE[q] = value at time: expired entries are purged, then the
\* least recently used ones are evicted while a new key does not fit, then
\* the key is set with a fresh lifetime and becomes the most recently used.
CacheSet(c, order, k, value, time) ==
  LET gone == Expired(c, time)
      c1 == [x \in DOMAIN c \ gone |-> c[x]]
      o1 == Without(order, gone)
      fits == k \in DOMAIN c1 \/ Cardinality(DOMAIN c1) + 1 <= MAXSIZE
      nevict == IF fits THEN 0 ELSE Cardinality(DOMAIN c1) + 1 - MAXSIZE
      out == {o1[i] : i \in 1..nevict}
      c2 == [x \in DOMAIN c1 \ out |-> c1[x]]
      o2 == Without(o1, out)
      entry == [val |-> value, ins |-> time, expires |-> time + TTL]
  IN [cache |-> [x \in DOMAIN c2 \cup {k} |-> IF x = k THEN entry ELSE c2[x]],
      order |-> Append(Without(o2, {k}), k)]

StoreResultIfAny(c, order, k, value, time) ==
  IF value = <<>> THEN [cache |-> c, order |-> order]
  ELSE CacheSet(c, order, k, value, time)

\* SEARCH_CACHE[q] = final_results: whatever the list holds.
StoreResult(c, order, k, value, time) == CacheSet(c, order, k, value, time)

----------------------------------------------------------------------------
(* The inputs of the model: queries, the remote service's records and      *)
(* answers.                                                                *)

\* The q argument: absent/blank, one character, and two that normalise to
\* "ab" and "b a".
RawQueries ==
  { <<>>, <<" ">>, <<"a">>, <<" ", "A", " ">>,
    <<"A", "b", " ">>, <<"b", " ", "a">> }

\* Only the queries that normalise to "ab" or are too short.
RawQueriesOneKey == RawQueries \ { <<"b", " ", "a">> }

Rec(id, title, username, dl, plays, score, fz) ==
  [dict |-> TRUE, id |-> id, title |-> title,
   user |-> IF username = Missing THEN Missing ELSE Obj, username |-> username,
   download_url |-> dl, playback_count |-> plays, _score |-> score, fuzz |-> fz]

T_ab  == Str(<<"a", "b">>)
T_b_a == Str(<<"b", " ", "a">>)
T_c   == Str(<<"c">>)
Url   == Str(<<"u">>)

\* id 1, title "ab", plays "5".
E1 == Rec(Num(1), T_ab, Missing, Missing, Str(<<"5">>), Missing, 100)
\* id 1 again, title "c": ratio 40, downloadable, so 45 for either query.
E2 == Rec(Num(1), T_c, Missing, Url, Missing, Missing, 40)
\* id 2, title "b a", owner "c": ratio 46, downloadable, plays 7.
E3 == Rec(Num(2), T_b_a, T_c, Url, Num(7), Missing, 46)
\* id 2 again, title "Ab", plays "5".
E4 == Rec(Num(2), Str(<<"A", "b">>), Missing, Missing, Str(<<"5">>), Missing, 100)
\* id 3, title "ab", no play count.
E5 == Rec(Num(3), T_ab, T_c, Missing, Missing, Missing, 100)
\* id 3 again, title "c", ratio 0, with a _score of 99 in the payload.
E6 == Rec(Num(3), T_c, Missing, Missing, Num(9), Num(99), 0)
\* No id.
M1 == Rec(Missing, T_ab, Missing, Missing, Missing, Missing, 100)
\* title null.
M2 == Rec(Num(1), Null, Missing, Missing, Missing, Missing, 0)
\* user null.
M3 == [Rec(Num(1), T_ab, Missing, Missing, Missing, Missing, 100) EXCEPT !.user = Null]
\* A play count that is no number.
M4 == Rec(Num(3), T_ab, Missing, Missing, Str(<<"x">>), Missing, 100)
\* An id that is a list.
M5 == Rec(Arr, T_ab, Missing, Missing, Missing, Missing, 100)
\* A list element that is no record (a string).
M6 == [Rec(Missing, Missing, Missing, Missing, Missing, Missing, 0) EXCEPT !.dict = FALSE]

WellFormed == {E1, E2, E3, E4, E5, E6}
Malformed == {M1, M2, M3, M4, M5, M6}
Elems == WellFormed \cup Malformed

\* The identities the records carry.
IDS == {e.id : e \in {x \in Elems : x.dict /\ Truthy(x.id) /\ Hashable(x.id)}}

\* The element lists of the answers: empty, each record alone, and pairs that
\* put a repeated id, a non-record, or a record that cannot be scored next
\* to a good one.
ElemSeqs ==
  {<<>>} \cup {<<e>> : e \in Elems}
         \cup { <<E1, E2>>, <<E2, E1>>, <<E5, E3>>, <<M6, E1>>, <<E1, M2>> }

Body(t, elems) == [t |-> t, elems |-> elems]

\* The bodies of the 200 answers: not JSON, a JSON scalar, a JSON array of
\* each element list, and JSON objects whose values are elements.
Bodies ==
  {Body("unparsable", <<>>), Body("scalar", <<>>)}
    \cup {Body("list", s) : s \in ElemSeqs}
    \cup {Body("dict", s) : s \in {<<>>, <<E5>>, <<M6, E1>>}}

\* The bodies of the answers with an error status: not JSON, an error
\* object, and JSON arrays of records.
ErrorBodies ==
  {Body("unparsable", <<>>), Body("dict", <<>>),
   Body("list", <<E1>>), Body("list", <<M5>>)}

NetError == [net |-> "error", status |-> 0, body |-> Body("unparsable", <<>>)]

\* What a request to the remote service ends in: an exception (timeout,
\* connection error), or an answer with a status and a body.
Responses ==
  {NetError}
    \cup {[net |-> "ok", status |-> HTTP_OK, body |-> b] : b \in Bodies}
    \cup {[net |-> "ok", status |-> 500, body |-> b] : b \in ErrorBodies}

\* Two answers, for the runs in which time passes: a failure and one record.
FewResponses ==
  {NetError, [net |-> "ok", status |-> HTTP_OK, body |-> Body("list", <<E1>>)]}

\* The artists of the catalogue (the first ones of the source's list): twice
\* as many as a run takes, as in the source (41 for 20).
ArtistNames == {"aidm", "allindiandjsclub"}

Perms(S) ==
  {p \in [1..Cardinality(S) -> S] : \A i, j \in 1..Cardinality(S) : p[i] = p[j] => i = j}

----------------------------------------------------------------------------
(* The state machine.                                                      *)

AllReqs == {"r1", "r2"}

NoResp == [raised |-> FALSE, v |-> <<>>]
\* search() left by an exception: the request fails.
Raised == [raised |-> TRUE, v |-> <<>>]
NoProbe ==
  [fn |-> "none", r |-> NetError, query |-> <<>>, out |-> <<>>,
   track |-> M1, score |-> Raise]

\* No item of some identity met yet.
NoItem == M6
NoFirst ==
  [out |-> [i \in IDS |-> "none"], kept |-> [i \in IDS |-> NoItem],
   later |-> [i \in IDS |-> FALSE]]

\* The record of the items the loop has met, after it has gone through
\* tracks.  Per identity: out, whether the first item met scored above the
\* floor ("kept") or not ("dropped"); kept, the first item met that scored
\* above the floor, with its score; later, whether an item met after that
\* one scores differently from it.  An item that cannot be scored counts as
\* scoring nothing.
RECURSIVE Met(_, _, _)
Met(fs, tracks, query) ==
  IF tracks = <<>> THEN fs
  ELSE LET t == Head(tracks)
       IN IF ~(t.dict /\ Truthy(t.id) /\ Hashable(t.id))
          THEN Met(fs, Tail(tracks), query)
          ELSE LET sc == EnsureScore(query, t)
                   ok == ~sc.raised /\ sc.v.t = "int"
                   passes == ok /\ sc.v.n > SCORE_FLOOR
                   scored == IF ok THEN [t EXCEPT !._score = sc.v] ELSE t
                   i == t.id
               IN Met([out |-> [fs.out EXCEPT ![i] =
                                  IF @ # "none" THEN @
                                  ELSE IF passes THEN "kept" ELSE "dropped"],
                       kept |-> [fs.kept EXCEPT ![i] =
                                   IF @ = NoItem /\ passes THEN scored ELSE @],
                       later |-> [fs.later EXCEPT ![i] =
                                    @ \/ (fs.kept[i] # NoItem
                                            /\ fs.kept[i]._score # scored._score)]],
                      Tail(tracks), query)

\* After import: the cache is empty, the artist list is shuffled, no request
\* is being served.
InitProcess ==
  /\ now = 0
  /\ SEARCH_CACHE = <<>>
  /\ lru = <<>>
  /\ stored = <<>>
  /\ KNOWN_ARTISTS \in Perms(ArtistNames)
  /\ pc = [r \in AllReqs |-> "idle"]
  /\ raw = [r \in AllReqs |-> <<>>]
  /\ q = [r \in AllReqs |-> <<>>]
  /\ pending = [r \in AllReqs |-> {}]
  /\ results = [r \in AllReqs |-> <<>>]
  /\ seen_ids = [r \in AllReqs |-> {}]
  /\ resp = [r \in AllReqs |-> NoResp]
  /\ via = [r \in AllReqs |-> "none"]
  /\ nfetch = [r \in AllReqs |-> 0]
  /\ occ = [r \in AllReqs |-> [i \in IDS |-> 0]]
  /\ okIds = [r \in AllReqs |-> {}]
  /\ anyOk = [r \in AllReqs |-> FALSE]
  /\ anyFailed = [r \in AllReqs |-> FALSE]
  /\ first = [r \in AllReqs |-> NoFirst]
  /\ probe = NoProbe

\* The remote service may answer each request differently.
Init == InitProcess /\ fixed = <<>>

runVars == <<pending, results, seen_ids, nfetch, occ, okIds, anyOk, anyFailed, first>>
cacheVars == <<SEARCH_CACHE, lru, stored>>

\* request.args.get("q", "").strip().lower()
Normalize(rawq) == lower(strip(rawq))

TooShortBelow1(qq) == Len(qq) < 1

\* if len(q) < 2
TooShort(qq) == Len(qq) < 2

\* search(), up to the length test: a short query is answered with [].
Arrive(r, rawq) ==
  /\ pc[r] = "idle"
  /\ raw' = [raw EXCEPT ![r] = rawq]
  /\ q' = [q EXCEPT ![r] = Normalize(rawq)]
  /\ IF TooShort(Normalize(rawq))
     THEN /\ pc' = [pc EXCEPT ![r] = "done"]
          /\ resp' = [resp EXCEPT ![r] = Ret(<<>>)]
          /\ via' = [via EXCEPT ![r] = "short"]
     ELSE /\ pc' = [pc EXCEPT ![r] = "check"]
          /\ UNCHANGED <<resp, via>>
  /\ UNCHANGED <<now, cacheVars, KNOWN_ARTISTS, fixed, runVars, probe>>

\* if q in SEARCH_CACHE
CheckCache(r) ==
  /\ pc[r] = "check"
  /\ IF CacheContains(SEARCH_CACHE, q[r], now)
     THEN /\ pc' = [pc EXCEPT ![r] = "hit"]
          /\ via' = [via EXCEPT ![r] = "hit"]
     ELSE /\ pc' = [pc EXCEPT ![r] = "miss"]
          /\ via' = [via EXCEPT ![r] = "miss"]
  /\ UNCHANGED <<now, cacheVars, KNOWN_ARTISTS, fixed, raw, q, resp, runVars, probe>>

\* return jsonify(SEARCH_CACHE[q]): the cache looks the key up again, at the
\* time of this second call; a key that is gone or expired by now is a
\* KeyError.  A read makes the key the most recently used.
ReadCache(r) ==
  /\ pc[r] = "hit"
  /\ pc' = [pc EXCEPT ![r] = "done"]
  /\ IF CacheContains(SEARCH_CACHE, q[r], now)
     THEN /\ resp' = [resp EXCEPT ![r] = Ret(CacheGetitem(SEARCH_CACHE, q[r]))]
          /\ lru' = Append(Without(lru, {q[r]}), q[r])
     ELSE /\ resp' = [resp EXCEPT ![r] = Raised]
          /\ lru' = lru
  /\ UNCHANGED <<now, SEARCH_CACHE, stored, KNOWN_ARTISTS, fixed, raw, q, via, runVars,
                 probe>>

GlobalFuture(i) == [kind |-> "global", page |-> i, artist |-> ""]
ArtistFuture(a) == [kind |-> "artist", page |-> 0, artist |-> a]

target_artists_all == KNOWN_ARTISTS

\* target_artists = KNOWN_ARTISTS[:20]
target_artists ==
  SubSeq(KNOWN_ARTISTS, 1, Min(TOP_ARTISTS, Len(KNOWN_ARTISTS)))

\* The list futures after the two submission loops: fetch_global for the
\* pages 1..3, then fetch_artist for each target artist.
submitted ==
  [i \in 1..LAST_PAGE |-> GlobalFuture(i)]
    \o [i \in 1..Len(target_artists) |-> ArtistFuture(target_artists[i])]

\* The futures as_completed waits for.
futures == {submitted[i] : i \in 1..Len(submitted)}

\* results = [], seen_ids = set(), and the submission of every future.
Dispatch(r) ==
  /\ pc[r] = "miss"
  /\ pc' = [pc EXCEPT ![r] = "gather"]
  /\ pending' = [pending EXCEPT ![r] = futures]
  /\ results' = [results EXCEPT ![r] = <<>>]
  /\ seen_ids' = [seen_ids EXCEPT ![r] = {}]
  /\ nfetch' = [nfetch EXCEPT ![r] = Len(submitted)]
  /\ UNCHANGED <<now, cacheVars, KNOWN_ARTISTS, fixed, raw, q, resp, via, occ, okIds,
                 anyOk, anyFailed, first, probe>>

\* What the worker of future f returns when its request ends in rsp.
FetchResult(f, rsp, query) ==
  IF f.kind = "global" THEN fetch_global(rsp) ELSE fetch_artist(rsp, query)

IdsOf(tracks) ==
  {tracks[i].id : i \in {j \in 1..Len(tracks) : tracks[j].dict}} \cap IDS

collected_shared(r) == results["r1"] \o results["r2"]

\* The list results of this call of search(): a local of the call.
collected(r) == results[r]

\* One turn of "for future in as_completed(futures)": some pending future f
\* completes next, its request having ended in rsp, and its tracks are
\* collected.  An exception leaves search(): the request fails.
Gather(r, f, rsp) ==
  /\ pc[r] = "gather"
  /\ f \in pending[r]
  /\ LET tracks == FetchResult(f, rsp, q[r])
         c == Collect([results |-> collected(r), seen_ids |-> seen_ids[r],
                       raised |-> FALSE], tracks, q[r])
         ids == IdsOf(tracks)
     IN /\ occ' = [occ EXCEPT ![r] =
                     [i \in IDS |-> IF i \in ids THEN Min(2, @[i] + 1) ELSE @[i]]]
        /\ okIds' = [okIds EXCEPT ![r] = IF Failed(rsp) THEN @ ELSE @ \cup ids]
        /\ anyOk' = [anyOk EXCEPT ![r] = @ \/ ~Failed(rsp)]
        /\ anyFailed' = [anyFailed EXCEPT ![r] = @ \/ Failed(rsp)]
        /\ first' = [first EXCEPT ![r] = Met(@, tracks, q[r])]
        /\ IF c.raised
           THEN /\ pc' = [pc EXCEPT ![r] = "done"]
                /\ resp' = [resp EXCEPT ![r] = Raised]
                /\ pending' = [pending EXCEPT ![r] = {}]
                /\ results' = [results EXCEPT ![r] = <<>>]
                /\ seen_ids' = [seen_ids EXCEPT ![r] = {}]
           ELSE /\ pending' = [pending EXCEPT ![r] = @ \ {f}]
                /\ results' = [results EXCEPT ![r] = c.results]
                /\ seen_ids' = [seen_ids EXCEPT ![r] = c.seen_ids]
                /\ UNCHANGED <<pc, resp>>
  /\ UNCHANGED <<now, cacheVars, KNOWN_ARTISTS, fixed, raw, q, via, nfetch, probe>>

AllCompletedAlways(r) == TRUE

\* as_completed(futures) is exhausted: every future has been yielded.
AllCompleted(r) == pending[r] = {}

\* After the loop: sort, cut, store under q, return.
Finish(r) ==
  /\ pc[r] = "gather"
  /\ AllCompleted(r)
  /\ pc' = [pc EXCEPT ![r] = "done"]
  /\ LET sorted == SortResults(results[r])
     IN IF sorted.raised
        THEN /\ resp' = [resp EXCEPT ![r] = Raised]
             /\ UNCHANGED cacheVars
        ELSE LET final_results == Truncate(sorted.v)
                 set == StoreResult(SEARCH_CACHE, lru, q[r], final_results, now)
             IN /\ SEARCH_CACHE' = set.cache
                /\ lru' = set.order
                /\ stored' = [k \in DOMAIN stored \cup {q[r]} |->
                                IF k = q[r]
                                THEN [val |-> final_results, at |-> now,
                                      allFailed |-> ~anyOk[r]]
                                ELSE stored[k]]
                /\ resp' = [resp EXCEPT ![r] = Ret(final_results)]
  /\ UNCHANGED <<now, KNOWN_ARTISTS, fixed, raw, q, via, runVars, probe>>

\* The response is sent; the worker serves the next request.
Reset(r) ==
  /\ pc[r] = "done"
  /\ pc' = [pc EXCEPT ![r] = "idle"]
  /\ raw' = [raw EXCEPT ![r] = <<>>]
  /\ q' = [q EXCEPT ![r] = <<>>]
  /\ pending' = [pending EXCEPT ![r] = {}]
  /\ results' = [results EXCEPT ![r] = <<>>]
  /\ seen_ids' = [seen_ids EXCEPT ![r] = {}]
  /\ resp' = [resp EXCEPT ![r] = NoResp]
  /\ via' = [via EXCEPT ![r] = "none"]
  /\ nfetch' = [nfetch EXCEPT ![r] = 0]
  /\ occ' = [occ EXCEPT ![r] = [i \in IDS |-> 0]]
  /\ okIds' = [okIds EXCEPT ![r] = {}]
  /\ anyOk' = [anyOk EXCEPT ![r] = FALSE]
  /\ anyFailed' = [anyFailed EXCEPT ![r] = FALSE]
  /\ first' = [first EXCEPT ![r] = NoFirst]
  /\ UNCHANGED <<now, cacheVars, KNOWN_ARTISTS, fixed, probe>>

\* Time passes.
Tick ==
  /\ now + TickStep <= MaxTime
  /\ now' = now + TickStep
  /\ UNCHANGED <<cacheVars, KNOWN_ARTISTS, fixed, pc, raw, q, resp, via, runVars, probe>>

\* One request at a time, every answer of the remote service, no time passing.
NextRun ==
  \/ \E rawq \in RawQueriesOneKey : Arrive("r1", rawq)
  \/ CheckCache("r1")
  \/ ReadCache("r1")
  \/ Dispatch("r1")
  \/ \E f \in pending["r1"], rsp \in Responses : Gather("r1", f, rsp)
  \/ Finish("r1")
  \/ Reset("r1")

Spec == Init /\ [][NextRun]_vars

\* One request at a time, both keys, two answers of the remote service, and
\* time passing between any two steps.
NextCache ==
  \/ \E rawq \in RawQueries : Arrive("r1", rawq)
  \/ CheckCache("r1")
  \/ ReadCache("r1")
  \/ Dispatch("r1")
  \/ \E f \in pending["r1"], rsp \in FewResponses : Gather("r1", f, rsp)
  \/ Finish("r1")
  \/ Reset("r1")
  \/ Tick

SpecCache == Init /\ [][NextCache]_vars

\* The queries of the requests that overlap: the first asks for either key,
\* the second for "ab" only.
ConcQueries(r) ==
  IF r = "r1" THEN { <<"A", "b", " ">>, <<"b", " ", "a">> } ELSE { <<"A", "b", " ">> }

\* The answers the remote service gives them: record 1 while the first
\* request fetches, record 2 while the second does.
ConcAnswer(r) ==
  [net |-> "ok", status |-> HTTP_OK,
   body |-> Body("list", IF r = "r1" THEN <<E1>> ELSE <<E3>>)]

\* Two requests served at once (two request threads of one process), every
\* interleaving of their steps.
NextConc ==
  \E r \in AllReqs :
    \/ \E rawq \in ConcQueries(r) : Arrive(r, rawq)
    \/ CheckCache(r)
    \/ ReadCache(r)
    \/ Dispatch(r)
    \/ \E f \in pending[r] : Gather(r, f, ConcAnswer(r))
    \/ Finish(r)
    \/ Reset(r)

SpecConc == Init /\ [][NextConc]_vars

\* The same, with time passing between any two steps.
NextConcTime == NextConc \/ Tick

SpecConcTime == Init /\ [][NextConcTime]_vars

\* The answers of a remote service that is fixed: record 1 under the title
\* "ab", record 1 with a null title, and record 1 under a title scoring 45.
OrderResponses ==
  {[net |-> "ok", status |-> HTTP_OK, body |-> Body("list", <<e>>)] : e \in {E1, M2, E2}}

\* The position of future f in the list futures.
IndexOf(f) == CHOOSE i \in 1..Len(submitted) : submitted[i] = f

\* As Init, with the answer to each future decided beforehand.
InitOrder ==
  /\ InitProcess
  /\ fixed \in [1..Len(submitted) -> OrderResponses]

\* One request at a time for "ab"; the futures complete in any order, each
\* with the answer decided for it.
NextOrder ==
  \/ Arrive("r1", <<"A", "b", " ">>)
  \/ CheckCache("r1")
  \/ ReadCache("r1")
  \/ Dispatch("r1")
  \/ \E f \in pending["r1"] : Gather("r1", f, fixed[IndexOf(f)])
  \/ Finish("r1")
  \/ Reset("r1")

SpecOrder == InitOrder /\ [][NextOrder]_vars

\* The normalised queries that reach the engine.
Queries == {Normalize(x) : x \in {y \in RawQueries : ~TooShort(Normalize(y))}}

\* fetch_global called on its own with a request that ends in rsp.
ProbeGlobal(rsp) ==
  /\ probe' = [NoProbe EXCEPT !.fn = "fetch_global", !.r = rsp,
                              !.out = fetch_global(rsp)]
  /\ UNCHANGED <<now, cacheVars, KNOWN_ARTISTS, fixed, pc, raw, q, resp, via, runVars>>

\* fetch_artist called on its own with a request that ends in rsp.
ProbeArtist(rsp, query) ==
  /\ probe' = [NoProbe EXCEPT !.fn = "fetch_artist", !.r = rsp, !.query = query,
                              !.out = fetch_artist(rsp, query)]
  /\ UNCHANGED <<now, cacheVars, KNOWN_ARTISTS, fixed, pc, raw, q, resp, via, runVars>>

NextFetch ==
  \/ \E rsp \in Responses : ProbeGlobal(rsp)
  \/ \E rsp \in Responses, query \in Queries : ProbeArtist(rsp, query)

SpecFetch == Init /\ [][NextFetch]_vars

\* The queries the scorer is called with: those of the engine and "b c".
ScoreQueries == Queries \cup {<<"b", " ", "c">>}

\* The records the scorer is called with: every record of the answers, and
\* every combination of a title, an owner, a download link and a ratio.
ScoreTracks ==
  Elems \cup
  {Rec(Num(1), t, u, d, Missing, Missing, f) :
     t \in {Missing, T_ab, T_b_a, T_c, Str(<<"A", "b">>), Str(<<"a">>)},
     u \in {Missing, T_c, Str(<<"B">>)},
     d \in {Missing, Str(<<>>), Url},
     f \in {41, 96}}

\* calculate_score called on its own.
ProbeScore(query, track) ==
  /\ probe' = [NoProbe EXCEPT !.fn = "calculate_score", !.query = query,
                              !.track = track,
                              !.score = calculate_score(query, track)]
  /\ UNCHANGED <<now, cacheVars, KNOWN_ARTISTS, fixed, pc, raw, q, resp, via, runVars>>

NextScore == \E query \in ScoreQueries, track \in ScoreTracks : ProbeScore(query, track)

SpecScore == Init /\ [][NextScore]_vars

----------------------------------------------------------------------------
(* The claims.                                                             *)

Returned(r) == pc[r] = "done" /\ ~resp[r].raised
RanToEnd(r) == Returned(r) /\ via[r] = "miss"
ScoreOf(x) == x._score.n
Count(s, i) == Cardinality({j \in 1..Len(s) : s[j].id = i})
Items(s) == {s[j] : j \in 1..Len(s)}
\* Every list search() has returned or the cache holds.
ResultSets ==
  {resp[r].v : r \in {x \in AllReqs : Returned(x)}}
    \cup {SEARCH_CACHE[k].val : k \in DOMAIN SEARCH_CACHE}

C2_ExpiryAfterTTL ==
  [][\A r \in AllReqs :
       /\ (pc[r] = "check" /\ pc'[r] # "check")
          => pc'[r] = IF /\ q[r] \in DOMAIN SEARCH_CACHE
                         /\ now < SEARCH_CACHE[q[r]].ins + TTL
                      THEN "hit" ELSE "miss"
       /\ (pc[r] = "hit" /\ pc'[r] = "done") => SEARCH_CACHE' = SEARCH_CACHE
       /\ (pc[r] = "miss" /\ pc'[r] # "miss")
          => /\ pc'[r] = "gather"
             /\ pending'[r] = futures
             /\ nfetch'[r] = LAST_PAGE + Len(target_artists)]_vars

\* A search that found its query's entry expired, exactly TTL after the
\* insertion, and has submitted its futures again.
C2_Witness ==
  \E r \in AllReqs :
    /\ pc[r] = "gather" /\ nfetch[r] = LAST_PAGE + Len(target_artists)
    /\ q[r] \in DOMAIN SEARCH_CACHE
    /\ now = SEARCH_CACHE[q[r]].ins + TTL

\* C3: a raw query whose trimmed, lower-cased form has fewer than 2
\* characters is answered with the empty list in the step that receives it,
\* with no fetch submitted and the cache and its order of use unchanged.
C3_ShortQuery ==
  [][\A r \in AllReqs :
       (pc[r] = "idle" /\ pc'[r] # "idle" /\ Len(lower(strip(raw'[r]))) < 2)
       => /\ pc'[r] = "done"
          /\ resp'[r] = Ret(<<>>)
          /\ nfetch'[r] = 0 /\ pending'[r] = {}
          /\ SEARCH_CACHE' = SEARCH_CACHE /\ lru' = lru]_vars

C3_Witness ==
  \E r \in AllReqs :
    /\ Returned(r) /\ via[r] = "short" /\ raw[r] = <<" ", "A", " ">>
    /\ resp[r].v = <<>>
    /\ SEARCH_CACHE # <<>>

C5_ExactlyOne ==
  \A r \in AllReqs :
    RanToEnd(r) => \A i \in IDS : occ[r][i] = 2 => Count(resp[r].v, i) = 1

\* C5, amended: such an identity has at most one entry in the returned list,
\* and exactly one when an occurrence of it passed the filter and nothing
\* was cut.
C5_AtMostOne ==
  \A r \in AllReqs :
    RanToEnd(r) =>
      \A i \in IDS :
        occ[r][i] = 2 =>
          /\ Count(resp[r].v, i) <= 1
          /\ (i \in seen_ids[r] /\ Len(results[r]) <= MAX_RESULTS)
               => Count(resp[r].v, i) = 1

C5_Witness ==
  \E r \in AllReqs :
    /\ RanToEnd(r)
    /\ \E i \in IDS : occ[r][i] = 2 /\ Count(resp[r].v, i) = 1

\* C6: in every list returned or cached, each item is followed by one of a
\* lower score, or of the same score and a play count that is not higher.
C6_Ranking ==
  \A s \in ResultSets :
    \A j \in 1..(Len(s) - 1) :
      \/ ScoreOf(s[j]) > ScoreOf(s[j + 1])
      \/ /\ ScoreOf(s[j]) = ScoreOf(s[j + 1])
         /\ PlayCount(s[j]).v >= PlayCount(s[j + 1]).v

\* A returned list whose two items tie on the score and differ in plays.
C6_Witness ==
  \E r \in AllReqs :
    /\ RanToEnd(r) /\ Len(resp[r].v) = 2
    /\ ScoreOf(resp[r].v[1]) = ScoreOf(resp[r].v[2])
    /\ PlayCount(resp[r].v[1]).v > PlayCount(resp[r].v[2]).v
    /\ results[r][1] = resp[r].v[2]

\* C7: every list returned or cached has at most MAX_RESULTS items, and a
\* run returns min(survivors, MAX_RESULTS) of its survivors, none of which
\* has a smaller sort key than a survivor left out.
C7_SizeBound ==
  /\ \A s \in ResultSets : Len(s) <= MAX_RESULTS
  /\ \A r \in AllReqs :
       RanToEnd(r) =>
         /\ Len(resp[r].v) = Min(Len(results[r]), MAX_RESULTS)
         /\ Items(resp[r].v) \subseteq Items(results[r])
         /\ \A x \in Items(results[r]) \ Items(resp[r].v) :
              \A y \in Items(resp[r].v) : ~KeyLess(SortKey(y), SortKey(x))

\* A run with more survivors than are kept, the first survivor cut.
C7_Witness ==
  \E r \in AllReqs :
    /\ RanToEnd(r) /\ Len(results[r]) > MAX_RESULTS
    /\ Len(resp[r].v) = MAX_RESULTS
    /\ results[r][1] \notin Items(resp[r].v)

\* C8 as stated: a run that collected every future returns only items of
\* fetches that did not fail, and the empty list when all of them failed.
C8_PartialFailure ==
  \A r \in AllReqs :
    RanToEnd(r) =>
      /\ \A x \in Items(resp[r].v) : x.id \in okIds[r]
      /\ ~anyOk[r] => resp[r].v = <<>>

\* C9 as stated: a run whose fetches all got an answer with status 200 and
\* a JSON body ends without raising, whatever the payloads hold.
C9_NoFatalErrors ==
  \A r \in AllReqs :
    (pc[r] = "done" /\ via[r] = "miss" /\ ~anyFailed[r]) => ~resp[r].raised

\* C10 as stated: a fetcher whose request ends in a network error, a status
\* other than 200 or a body that is not JSON returns the empty list.
C10_FailSoft ==
  (probe.fn # "none" /\ Failed(probe.r)) => probe.out = <<>>

\* C11: a search that misses submits LAST_PAGE + TOP_ARTISTS futures, all
\* different: fetch_global for each page 1..LAST_PAGE and fetch_artist for
\* each artist of the first TOP_ARTISTS of the shuffled list; the shuffled
\* list never changes afterwards, so every run uses the same prefix; and
\* never more than MAX_WORKERS futures of a run are outstanding.
C11_DispatchShape ==
  [][/\ KNOWN_ARTISTS' = KNOWN_ARTISTS
     /\ \A r \in AllReqs :
          /\ (pc[r] = "miss" /\ pc'[r] # "miss")
             => /\ nfetch'[r] = LAST_PAGE + TOP_ARTISTS
                /\ Cardinality(pending'[r]) = nfetch'[r]
                /\ {f.page : f \in {g \in pending'[r] : g.kind = "global"}}
                     = 1..LAST_PAGE
                /\ {f.artist : f \in {g \in pending'[r] : g.kind = "artist"}}
                     = {KNOWN_ARTISTS[i] : i \in 1..TOP_ARTISTS}
          /\ Cardinality(pending'[r]) <= MAX_WORKERS
          /\ pending'[r] \subseteq pending[r] \/ pc[r] = "miss"]_vars

\* A second run of the process, dispatched with the same artists as the
\* first one, whose result is in the cache.
C11_Witness ==
  \E r \in AllReqs :
    /\ pc[r] = "gather" /\ SEARCH_CACHE # <<>>
    /\ Cardinality(pending[r]) = LAST_PAGE + TOP_ARTISTS
    /\ \E f \in pending[r] : f.kind = "artist" /\ f.artist = KNOWN_ARTISTS[1]

\* C12: each turn of the collection loop takes one future off the
\* outstanding ones; a search returns a list on the miss path, and the cache
\* is written, only in a step that starts with no future outstanding, and
\* the list returned and stored is the sorted, cut list of everything
\* collected.
C12_FanIn ==
  [][/\ \A r \in AllReqs :
          /\ (pc[r] = "gather" /\ pc'[r] = "gather")
             => Cardinality(pending'[r]) = Cardinality(pending[r]) - 1
          /\ (pc[r] # "done" /\ pc'[r] = "done" /\ via[r] = "miss"
                /\ ~resp'[r].raised)
             => /\ pc[r] = "gather" /\ pending[r] = {}
                /\ resp'[r].v = Truncate(SortResults(results[r]).v)
                /\ SEARCH_CACHE'[q[r]].val = resp'[r].v
     /\ SEARCH_CACHE' # SEARCH_CACHE
          => \E r \in AllReqs :
               /\ pc[r] = "gather" /\ pending[r] = {} /\ pc'[r] = "done"
               /\ ~resp'[r].raised]_vars

\* A run that ended with a list after some of its fetches failed and others
\* delivered.
C12_Witness ==
  \E r \in AllReqs :
    /\ RanToEnd(r) /\ pending[r] = {} /\ anyFailed[r] /\ anyOk[r]
    /\ Len(results[r]) = 2 /\ resp[r].v # results[r]
    /\ q[r] \in DOMAIN SEARCH_CACHE /\ SEARCH_CACHE[q[r]].val = resp[r].v

\* The title and the owner name of a scored record as the rules see them:
\* lower-cased, empty when the record has none.
ItemTitle(track) == IF track.title.t = "str" THEN lower(track.title.s) ELSE <<>>
ItemOwner(track) ==
  IF track.user.t = "dict" /\ track.username.t = "str"
  THEN lower(track.username.s) ELSE <<>>
\* Title and owner name joined by one space.
TitleAndOwner(track) == ItemTitle(track) \o <<" ">> \o ItemOwner(track)
ExactRuleApplies(query, track) == Contains(query, ItemTitle(track))
SplitRuleApplies(query, track) ==
  /\ Len(split(query)) >= 2
  /\ \A i \in 1..Len(split(query)) : Contains(split(query)[i], TitleAndOwner(track))
Scored == probe.fn = "calculate_score" /\ ~probe.score.raised

\* C13: a record the scorer scored gets exactly 100 when the query is in its
\* lower-cased title; otherwise it gets exactly 95 when the query has two or
\* more parts and each is in the title and owner name joined by a space.
C13_RulePriority ==
  Scored =>
    /\ ExactRuleApplies(probe.query, probe.track) => probe.score.v = EXACT_SCORE
    /\ (~ExactRuleApplies(probe.query, probe.track)
          /\ SplitRuleApplies(probe.query, probe.track))
         => probe.score.v = SPLIT_SCORE

\* "b a" scored against the title "b a": both rules apply, the exact one wins.
C13_Witness ==
  /\ Scored /\ probe.query = <<"b", " ", "a">>
  /\ ExactRuleApplies(probe.query, probe.track)
  /\ SplitRuleApplies(probe.query, probe.track)
  /\ probe.score.v = EXACT_SCORE

\* C14 as stated: a search that took the hit path never ends in an error,
\* whatever the other request and the clock do between its membership test
\* and its read.
C14_CacheNeverFails ==
  \A r \in AllReqs : (pc[r] = "done" /\ via[r] = "hit") => ~resp[r].raised

\* The identities of the records the remote service gives request r.
AnswerIds(r) == IdsOf(ConcAnswer(r).body.elems)

\* C15: whatever the other request is doing, a search that misses submits
\* its own LAST_PAGE + TOP_ARTISTS futures, and when it finishes it returns
\* the sorted, cut list of what it collected itself, made only of records
\* its own fetches delivered, and stores exactly that list under its query,
\* replacing what the other run stored there.
C15_ConcurrentRuns ==
  [][\A r \in AllReqs :
       /\ (pc[r] = "miss" /\ pc'[r] # "miss")
          => /\ pending'[r] = futures
             /\ nfetch'[r] = LAST_PAGE + TOP_ARTISTS
       /\ (pc[r] = "gather" /\ pc'[r] = "gather")
          => \A x \in Items(results'[r]) : x.id \in AnswerIds(r)
       /\ (pc[r] = "gather" /\ pc'[r] = "done")
          => /\ ~resp'[r].raised
             /\ resp'[r].v = Truncate(SortResults(results[r]).v)
             /\ \A x \in Items(resp'[r].v) : x.id \in AnswerIds(r)
             /\ SEARCH_CACHE'[q[r]].val = resp'[r].v]_vars

\* Both requests ran for "ab" at once: each missed, submitted its futures
\* and returned its own record; the entry holds the list of one of them.
C15_Witness ==
  /\ \A r \in AllReqs :
       /\ RanToEnd(r) /\ q[r] = <<"a", "b">>
       /\ nfetch[r] = LAST_PAGE + TOP_ARTISTS
       /\ resp[r].v # <<>> /\ \A x \in Items(resp[r].v) : x.id \in AnswerIds(r)
  /\ resp["r1"].v # resp["r2"].v
  /\ SEARCH_CACHE[<<"a", "b">>].val = resp["r1"].v

\* C16 as stated: the first item the loop meets with an identity decides for
\* that identity: when it is dropped, the run collects no item with that
\* identity; when it is kept, the run collects that item and no other.
C16_FirstDecides ==
  \A r \in AllReqs :
    RanToEnd(r) =>
      \A i \in IDS :
        /\ first[r].out[i] = "dropped" => Count(results[r], i) = 0
        /\ first[r].out[i] = "kept"
             => {x \in Items(results[r]) : x.id = i} = {first[r].kept[i]}

\* C16, amended: the items a run collected are, for each identity, the first
\* item met with that identity that scored above the floor, and no other.
C16_FirstPassingWins ==
  \A r \in AllReqs :
    RanToEnd(r) =>
      /\ Items(results[r]) = {first[r].kept[i] : i \in IDS} \ {NoItem}
      /\ \A i \in IDS : Count(results[r], i) <= 1

\* A run that kept the first item of an identity and dropped a later one
\* that scored differently.
C16_Witness ==
  \E r \in AllReqs :
    /\ RanToEnd(r)
    /\ \E i \in IDS :
         /\ first[r].out[i] = "kept" /\ first[r].later[i]
         /\ first[r].kept[i] \in Items(results[r])
         /\ Count(results[r], i) = 1

\* The record exposes a download: it has a download link that is not empty.
Downloadable(track) == Truthy(track.download_url)

\* C17 as stated: a downloadable record gets the bonus on top of the split
\* rule's 95 and on top of the ratio, and only the exact rule's 100 goes
\* without it.
C17_BonusOnSplitAndFuzzy ==
  (Scored /\ Downloadable(probe.track)) =>
    /\ ExactRuleApplies(probe.query, probe.track) => probe.score.v = EXACT_SCORE
    /\ (~ExactRuleApplies(probe.query, probe.track)
          /\ SplitRuleApplies(probe.query, probe.track))
         => probe.score.v = SPLIT_SCORE + DOWNLOAD_BONUS
    /\ (~ExactRuleApplies(probe.query, probe.track)
          /\ ~SplitRuleApplies(probe.query, probe.track))
         => probe.score.v = probe.track.fuzz + DOWNLOAD_BONUS

\* C17, amended: the bonus is added only on top of the ratio, and only for a
\* downloadable record; the exact rule's 100 and the split rule's 95 go
\* without it.
C17_BonusOnFuzzyOnly ==
  Scored =>
    /\ ExactRuleApplies(probe.query, probe.track) => probe.score.v = EXACT_SCORE
    /\ (~ExactRuleApplies(probe.query, probe.track)
          /\ SplitRuleApplies(probe.query, probe.track))
         => probe.score.v = SPLIT_SCORE
    /\ (~ExactRuleApplies(probe.query, probe.track)
          /\ ~SplitRuleApplies(probe.query, probe.track))
         => probe.score.v = probe.track.fuzz
                             + (IF Downloadable(probe.track) THEN DOWNLOAD_BONUS ELSE 0)

\* A downloadable record scored by the ratio, above 100 with the bonus.
C17_Witness ==
  /\ Scored /\ Downloadable(probe.track)
  /\ ~ExactRuleApplies(probe.query, probe.track)
  /\ ~SplitRuleApplies(probe.query, probe.track)
  /\ probe.score.v = 96 + DOWNLOAD_BONUS

\* C18 as stated: the score of every item a search returns is what the
\* scorer gives for the search's query and that item.
C18_ScoreProvenance ==
  \A r \in AllReqs :
    Returned(r) =>
      \A x \in Items(resp[r].v) : calculate_score(q[r], x) = Ret(ScoreOf(x))

\* The collection loop run over the futures in submission order, each with
\* its fixed answer: whether it raises, and the identities it keeps.
RECURSIVE InSubmissionOrder(_, _, _)
InSubmissionOrder(c, i, query) ==
  IF i > Len(submitted) \/ c.raised THEN c
  ELSE InSubmissionOrder(
         Collect(c, FetchResult(submitted[i], fixed[i], query), query), i + 1, query)

SubmissionOrderOutcome(query) ==
  LET c == InSubmissionOrder([results |-> <<>>, seen_ids |-> {}, raised |-> FALSE],
                             1, query)
  IN [raised |-> c.raised, ids |-> IF c.raised THEN {} ELSE c.seen_ids]

\* The collection loop of request r was left by an exception.
CollectionRaised(r) == resp[r].raised /\ ~SortResults(results[r]).raised

\* C19 as stated: with the answer to each future fixed, the identities that
\* survive the collection of a run are those that survive it when the
\* futures complete in submission order; so they are the same for every
\* completion order.
C19_OrderIndependence ==
  \A r \in AllReqs :
    (pc[r] = "done" /\ via[r] = "miss") =>
      [raised |-> CollectionRaised(r), ids |-> seen_ids[r]]
        = SubmissionOrderOutcome(q[r])

\* A run whose fetches all failed stored the empty list under the query of
\* r less than TTL ago, and no run has stored under it since.
StoredWithinTTL(r) ==
  /\ q[r] \in DOMAIN stored /\ now < stored[q[r]].at + TTL
  /\ stored[q[r]].val = <<>> /\ stored[q[r]].allFailed

\* C20 as stated: a run that misses and finishes stores the list it returns
\* under its query, the empty one included; and a search for a query under
\* which the empty list was stored less than TTL ago takes the hit path and
\* returns the empty list without submitting a fetch.
C20_EmptyResultCached ==
  [][\A r \in AllReqs :
       /\ (pc[r] = "gather" /\ pc'[r] = "done" /\ ~resp'[r].raised)
          => /\ q[r] \in DOMAIN SEARCH_CACHE'
             /\ SEARCH_CACHE'[q[r]].val = resp'[r].v
       /\ (pc[r] = "check" /\ pc'[r] # "check" /\ StoredWithinTTL(r))
          => pc'[r] = "hit"
       /\ (pc[r] = "hit" /\ pc'[r] = "done" /\ StoredWithinTTL(r))
          => resp'[r] = Ret(<<>>) /\ nfetch'[r] = 0]_vars

\* C20, amended: the same for the searches that find the entry still in the
\* cache (not evicted to make room for another key) at the membership test
\* and at the read.
C20_EmptyResultCachedUnlessEvicted ==
  [][\A r \in AllReqs :
       /\ (pc[r] = "gather" /\ pc'[r] = "done" /\ ~resp'[r].raised)
          => /\ q[r] \in DOMAIN SEARCH_CACHE'
             /\ SEARCH_CACHE'[q[r]].val = resp'[r].v
       /\ (pc[r] = "check" /\ pc'[r] # "check" /\ StoredWithinTTL(r)
             /\ q[r] \in DOMAIN SEARCH_CACHE)
          => pc'[r] = "hit"
       /\ (pc[r] = "hit" /\ pc'[r] = "done" /\ StoredWithinTTL(r)
             /\ q[r] \in DOMAIN SEARCH_CACHE)
          => resp'[r] = Ret(<<>>) /\ nfetch'[r] = 0]_vars

\* A search answered with the empty list from the cache, some time after a
\* run whose fetches all failed stored it.
C20_Witness ==
  \E r \in AllReqs :
    /\ Returned(r) /\ via[r] = "hit" /\ nfetch[r] = 0 /\ resp[r].v = <<>>
    /\ q[r] \in DOMAIN stored /\ stored[q[r]].val = <<>> /\ stored[q[r]].allFailed
    /\ now > stored[q[r]].at /\ now < stored[q[r]].at + TTL

====
